---- MODULE Spec2Model ----
(***************************************************************************)
(* Betweenness centrality of graphology                                    *)
(* (src/src/metrics/centrality/betweenness.js).                            *)
(*                                                                         *)
(* One call of betweennessCentrality / edgeBetweennessCentrality is a      *)
(* state machine: resolve the options, then for every source call the      *)
(* indexer, run the reset loop on delta, run the backward accumulation,    *)
(* and rescale at the end.                                                 *)
(*                                                                         *)
(* Float64 values are modelled as exact rationals <<n, d>> (d > 0, lowest  *)
(* terms); rounding in the least significant bits is outside the model.    *)
(* Node indices are 0..N-1 and a node's key is its index.  An edge's key   *)
(* is the ordered pair under which the graph stores it.                    *)
(***************************************************************************)
EXTENDS Integers, Sequences, FiniteSets, TLC

\* ------------------------------------------------------------------------
\* Bounds of the explored inputs.
\* ------------------------------------------------------------------------
MaxOrder == 4
MaxDirOrder == 3
MaxSmallOrder == 3
MaxArcs == 3
MaxAnyOrderArcs == 2
HeavyWeight == 3

\* ------------------------------------------------------------------------
\* Exact rationals standing for the Float64 values.
\* ------------------------------------------------------------------------
RECURSIVE GCD(_, _)
GCD(a, b) == IF b = 0 THEN a ELSE GCD(b, a % b)

Abs(a) == IF a < 0 THEN -a ELSE a

Norm(n, d) ==
  LET g == GCD(Abs(n), Abs(d))
      s == IF d < 0 THEN -1 ELSE 1
  IN  <<(s * n) \div g, (s * d) \div g>>

Num(k) == <<k, 1>>
Zero == Num(0)
Half == <<1, 2>>
Add(x, y) == Norm(x[1] * y[2] + y[1] * x[2], x[2] * y[2])
Mul(x, y) == Norm(x[1] * y[1], x[2] * y[2])
Div(x, y) == Norm(x[1] * y[2], x[2] * y[1])
Leq(x, y) == x[1] * y[2] <= y[1] * x[2]

\* ------------------------------------------------------------------------
\* JavaScript option values.
\* ------------------------------------------------------------------------
Undefined == [t |-> "undefined"]
Null == [t |-> "null"]
Str(s) == [t |-> "string", v |-> s]
Bool(b) == [t |-> "boolean", v |-> b]
Function == [t |-> "function"]

Truthy(x) ==
  CASE x.t = "undefined" -> FALSE
    [] x.t = "null" -> FALSE
    [] x.t = "string" -> x.v # ""
    [] x.t = "boolean" -> x.v
    [] OTHER -> TRUE

\* ------------------------------------------------------------------------
\* The graph handle: order, type, the stored edges and the edges carrying a
\* numeric "weight" attribute (HeavyWeight); the others carry none.
\* ------------------------------------------------------------------------
Nodes(g) == 0 .. (g.order - 1)

\* graph.edge(a, b): the key of the edge stored for the ordered pair, or
\* NoEdge (JavaScript's undefined).
NoEdge == <<>>
GraphEdge(g, a, b) == IF <<a, b>> \in g.edges THEN <<a, b>> ELSE NoEdge

Adjacent(g, v, w) ==
  \/ <<v, w>> \in g.edges
  \/ g.type = "undirected" /\ <<w, v>> \in g.edges

RECURSIVE SortedSeq(_)
SortedSeq(s) ==
  IF s = {} THEN <<>>
  ELSE LET m == CHOOSE x \in s : \A y \in s : x <= y
       IN  <<m>> \o SortedSeq(s \ {m})

\* The outbound neighbourhood of v, in index order.
Neighbors(g, v) == SortedSeq({w \in Nodes(g) : Adjacent(g, v, w)})

\* The stored edge between v and its outbound neighbour w.
EdgeBetween(g, v, w) == IF <<v, w>> \in g.edges THEN <<v, w>> ELSE <<w, v>>

\* The weight getter built from getEdgeWeight: a string reads that attribute
\* and falls back to 1 when the edge has no such number; the function getter
\* of the explored inputs returns 1.
EdgeWeight(g, gew, e) ==
  IF gew.t = "string" /\ gew.v = "weight" /\ e \in g.heavy
  THEN HeavyWeight
  ELSE 1

\* ------------------------------------------------------------------------
\* The fixed stack S shared by all calls of one indexer: a buffer of
\* capacity N that push overwrites and pop leaves in place.
\* ------------------------------------------------------------------------
NewStack(N) == [items |-> [p \in 0 .. (N - 1) |-> 0], size |-> 0]
Push(S, x) == [items |-> [S.items EXCEPT ![S.size] = x], size |-> S.size + 1]
Top(S) == S.items[S.size - 1]
Pop(S) == [S EXCEPT !.size = S.size - 1]
StackSet(S) == {S.items[p] : p \in 0 .. (S.size - 1)}

\* ------------------------------------------------------------------------
\* createUnweightedIndexedBrandes: breadth-first search from the source.
\* ------------------------------------------------------------------------
RECURSIVE UnweightedVisit(_, _, _)
UnweightedVisit(st, v, nbrs) ==
  IF nbrs = <<>> THEN st
  ELSE
    LET w == Head(nbrs)
        st1 == IF st.D[w] = -1
               THEN [st EXCEPT !.Q = Append(st.Q, w), !.D[w] = st.D[v] + 1]
               ELSE st
        st2 == IF st1.D[w] = st1.D[v] + 1
               THEN [st1 EXCEPT !.sigma[w] = st1.sigma[w] + st1.sigma[v],
                                !.P[w] = Append(st1.P[w], v)]
               ELSE st1
    IN  UnweightedVisit(st2, v, Tail(nbrs))

RECURSIVE UnweightedLoop(_, _)
UnweightedLoop(g, st) ==
  IF st.Q = <<>> THEN st
  ELSE
    LET v == Head(st.Q)
        st1 == [st EXCEPT !.Q = Tail(st.Q), !.S = Push(st.S, v)]
    IN  UnweightedLoop(g, UnweightedVisit(st1, v, Neighbors(g, v)))

UnweightedBrandes(g, S, source) ==
  LET st == UnweightedLoop(g,
              [Q |-> <<source>>,
               S |-> S,
               sigma |-> [v \in Nodes(g) |-> IF v = source THEN 1 ELSE 0],
               D |-> [v \in Nodes(g) |-> IF v = source THEN 0 ELSE -1],
               P |-> [v \in Nodes(g) |-> <<>>]])
  IN  [S |-> st.S, P |-> st.P, sigma |-> st.sigma]

\* ------------------------------------------------------------------------
\* createDijkstraIndexedBrandes: the heap holds <<cost, count, pred, node>>
\* and pops the least item in that lexicographic order.
\* ------------------------------------------------------------------------
ItemLess(a, b) ==
  \/ a[1] < b[1]
  \/ a[1] = b[1] /\ a[2] < b[2]

RECURSIVE DijkstraVisit(_, _, _, _, _)
DijkstraVisit(g, gew, st, v, nbrs) ==
  IF nbrs = <<>> THEN st
  ELSE
    LET w == Head(nbrs)
        cost == st.D[v] + EdgeWeight(g, gew, EdgeBetween(g, v, w))
        st1 == IF st.D[w] = -1 /\ (st.seen[w] = -1 \/ cost < st.seen[w])
               THEN [st EXCEPT !.seen[w] = cost,
                               !.Q = st.Q \cup {<<cost, st.count, v, w>>},
                               !.count = st.count + 1,
                               !.sigma[w] = 0,
                               !.P[w] = <<v>>]
               ELSE IF cost = st.seen[w]
               THEN [st EXCEPT !.sigma[w] = st.sigma[w] + st.sigma[v],
                               !.P[w] = Append(st.P[w], v)]
               ELSE st
    IN  DijkstraVisit(g, gew, st1, v, Tail(nbrs))

RECURSIVE DijkstraLoop(_, _, _)
DijkstraLoop(g, gew, st) ==
  IF st.Q = {} THEN st
  ELSE
    LET item == CHOOSE a \in st.Q : \A b \in st.Q : a = b \/ ItemLess(a, b)
        cost == item[1]
        pred == item[3]
        v == item[4]
        st0 == [st EXCEPT !.Q = st.Q \ {item}]
    IN  IF st0.D[v] # -1 THEN DijkstraLoop(g, gew, st0)
        ELSE
          LET st1 == [st0 EXCEPT !.S = Push(st0.S, v),
                                 !.D[v] = cost,
                                 !.sigma[v] = st0.sigma[v] + st0.sigma[pred]]
          IN  DijkstraLoop(g, gew, DijkstraVisit(g, gew, st1, v, Neighbors(g, v)))

DijkstraBrandes(g, gew, S, source) ==
  LET st == DijkstraLoop(g, gew,
              [Q |-> {<<0, 0, source, source>>},
               count |-> 1,
               S |-> S,
               sigma |-> [v \in Nodes(g) |-> IF v = source THEN 1 ELSE 0],
               D |-> [v \in Nodes(g) |-> -1],
               seen |-> [v \in Nodes(g) |-> IF v = source THEN 0 ELSE -1],
               P |-> [v \in Nodes(g) |-> <<>>]])
  IN  [S |-> st.S, P |-> st.P, sigma |-> st.sigma]

\* ------------------------------------------------------------------------
\* Option resolution.
\* ------------------------------------------------------------------------
\* Variant: no default weight accessor.
DEFAULTS_NODE_NoWeight ==
  [nodeCentralityAttribute |-> Str("nodeBetweennessCentrality"),
   getEdgeWeight |-> Null,
   normalized |-> Bool(TRUE)]

DEFAULTS_NODE ==
  [nodeCentralityAttribute |-> Str("nodeBetweennessCentrality"),
   getEdgeWeight |-> Str("weight"),
   normalized |-> Bool(TRUE)]

DEFAULTS_EDGE ==
  [edgeCentralityAttribute |-> Str("edgeBetweennessCentrality"),
   getEdgeWeight |-> Str("weight"),
   normalized |-> Bool(TRUE)]

\* target[k] of an options value: an omitted options argument and an absent
\* key both read as undefined.
Get(target, k) ==
  IF target.t = "object" /\ k \in DOMAIN target.v THEN target.v[k] ELSE Undefined

Object(f) == [t |-> "object", v |-> f]

\* resolveDefaults(target, defaults): every key of the defaults, with the
\* target's value unless that is undefined.
ResolveDefaults(target, defaults) ==
  [k \in DOMAIN defaults |->
     LET existing == Get(target, k)
     IN  IF existing.t = "undefined" THEN defaults[k] ELSE existing]

Defaults(f) == IF f = "node" THEN DEFAULTS_NODE ELSE DEFAULTS_EDGE

\* options.getEdgeWeight ? createDijkstraIndexedBrandes(...)
\*                       : createUnweightedIndexedBrandes(graph)
SelectBrandes(resolved) ==
  IF Truthy(resolved.getEdgeWeight) THEN "dijkstra" ELSE "unweighted"

\* brandes(i)
Brandes(kind, g, gew, S, source) ==
  IF kind = "dijkstra" THEN DijkstraBrandes(g, gew, S, source)
  ELSE UnweightedBrandes(g, S, source)

\* ------------------------------------------------------------------------
\* The reset loop: j = S.size; while (j--) delta[S.items[S.size - j]] = 0.
\* Reading S.items past its capacity gives undefined, and delta[undefined]
\* writes no element.  written collects the indices assigned.
\* ------------------------------------------------------------------------
\* Variant: the index is one further up the buffer.
ResetIndexBeyond(S, j) == S.size - j + 1

ResetIndex(S, j) == S.size - j

RECURSIVE ResetLoop(_, _, _)
ResetLoop(st, S, j) ==
  IF j = 0 THEN st
  ELSE
    LET j1 == j - 1
        p == ResetIndex(S, j1)
    IN  IF p \in DOMAIN S.items
        THEN ResetLoop([delta |-> [st.delta EXCEPT ![S.items[p]] = Zero],
                        written |-> st.written \cup {S.items[p]}], S, j1)
        ELSE ResetLoop(st, S, j1)

Reset(delta, S) == ResetLoop([delta |-> delta, written |-> {}], S, S.size)

\* ------------------------------------------------------------------------
\* Backward accumulation of the node accumulator.
\* ------------------------------------------------------------------------
Coefficient(delta, sigma, w) == Div(Add(Num(1), delta[w]), Num(sigma[w]))

RECURSIVE NodePredLoop(_, _, _, _)
NodePredLoop(delta, preds, sigma, coefficient) ==
  IF preds = <<>> THEN delta
  ELSE
    LET v == Head(preds)
    IN  NodePredLoop(
          [delta EXCEPT ![v] = Add(delta[v], Mul(Num(sigma[v]), coefficient))],
          Tail(preds), sigma, coefficient)

\* Variant: the source is credited too.
NodeCreditSource(centralities, delta, w, i) ==
  [centralities EXCEPT ![w] = Add(centralities[w], delta[w])]

\* if (w !== i) centralities[w] += delta[w]
NodeCredit(centralities, delta, w, i) ==
  IF w # i
  THEN [centralities EXCEPT ![w] = Add(centralities[w], delta[w])]
  ELSE centralities

RECURSIVE NodeAccumulate(_, _, _, _)
NodeAccumulate(st, P, sigma, i) ==
  IF st.S.size = 0 THEN st
  ELSE
    LET w == Top(st.S)
        coefficient == Coefficient(st.delta, sigma, w)
        delta1 == NodePredLoop(st.delta, P[w], sigma, coefficient)
    IN  NodeAccumulate(
          [S |-> Pop(st.S),
           delta |-> delta1,
           centralities |-> NodeCredit(st.centralities, delta1, w, i)],
          P, sigma, i)

\* ------------------------------------------------------------------------
\* Backward accumulation of the edge accumulator.
\* ------------------------------------------------------------------------
\* Variant: no fallback to the reverse orientation.
EdgeCreditNoFallback(g, edgeCentralities, v, w, c) ==
  LET vw == GraphEdge(g, v, w)
  IN  IF vw = NoEdge THEN edgeCentralities
      ELSE [edgeCentralities EXCEPT ![vw] = Add(edgeCentralities[vw], c)]

\* vw === undefined ? edgeCentralities[wv] += c : edgeCentralities[vw] += c
EdgeCredit(g, edgeCentralities, v, w, c) ==
  LET vw == GraphEdge(g, v, w)
      wv == GraphEdge(g, w, v)
      e == IF vw = NoEdge THEN wv ELSE vw
  IN  [edgeCentralities EXCEPT ![e] = Add(edgeCentralities[e], c)]

RECURSIVE EdgePredLoop(_, _, _, _, _, _)
EdgePredLoop(g, st, w, preds, sigma, coefficient) ==
  IF preds = <<>> THEN st
  ELSE
    LET v == Head(preds)
        c == Mul(Num(sigma[v]), coefficient)
    IN  EdgePredLoop(g,
          [S |-> st.S,
           delta |-> [st.delta EXCEPT ![v] = Add(st.delta[v], c)],
           edgeCentralities |-> EdgeCredit(g, st.edgeCentralities, v, w, c)],
          w, Tail(preds), sigma, coefficient)

RECURSIVE EdgeAccumulate(_, _, _, _)
EdgeAccumulate(g, st, P, sigma) ==
  IF st.S.size = 0 THEN st
  ELSE
    LET w == Top(st.S)
        coefficient == Coefficient(st.delta, sigma, w)
    IN  EdgeAccumulate(g,
          EdgePredLoop(g, [st EXCEPT !.S = Pop(st.S)], w, P[w], sigma, coefficient),
          P, sigma)

\* Variant: the totals start at 1.
InitEdgeCentralitiesOne(g) == [e \in g.edges |-> Num(1)]

\* graph.forEachEdge(function (edge) { edgeCentralities[edge] = 0.0; })
InitEdgeCentralities(g) == [e \in g.edges |-> Zero]

\* ------------------------------------------------------------------------
\* Rescaling.  NoScale is the code's null.
\* ------------------------------------------------------------------------
NoScale == <<0, 0>>

\* Variant: raw values of an undirected graph are not halved.
NodeScaleNoHalf(normalized, g) ==
  IF normalized
  THEN (IF g.order <= 2 THEN NoScale
        ELSE Div(Num(1), Num((g.order - 1) * (g.order - 2))))
  ELSE NoScale

\* Variant: the normalization of halved sums applied to the full sums.
NodeScaleDouble(normalized, g) ==
  IF normalized
  THEN (IF g.order <= 2 THEN NoScale
        ELSE Div(Num(2), Num((g.order - 1) * (g.order - 2))))
  ELSE (IF g.type = "undirected" THEN Half ELSE NoScale)

\* Variant: the test of normalized is inverted.
NodeScaleInverted(normalized, g) ==
  IF ~normalized
  THEN (IF g.order <= 2 THEN NoScale
        ELSE Div(Num(1), Num((g.order - 1) * (g.order - 2))))
  ELSE (IF g.type = "undirected" THEN Half ELSE NoScale)

NodeScale(normalized, g) ==
  IF normalized
  THEN (IF g.order <= 2 THEN NoScale
        ELSE Div(Num(1), Num((g.order - 1) * (g.order - 2))))
  ELSE (IF g.type = "undirected" THEN Half ELSE NoScale)

EdgeScale(normalized, g) ==
  IF normalized
  THEN (IF g.order <= 1 THEN NoScale
        ELSE Div(Num(1), Num(g.order * (g.order - 1))))
  ELSE (IF g.type = "undirected" THEN Half ELSE NoScale)

Rescaled(values, scale) ==
  IF scale = NoScale THEN values
  ELSE [x \in DOMAIN values |-> Mul(values[x], scale)]

\* ------------------------------------------------------------------------
\* State of one call.
\* ------------------------------------------------------------------------
VARIABLES
  fn,                \* "node": betweennessCentrality, "edge": edgeBetweennessCentrality
  graph,             \* the graph handle
  options,           \* the options argument
  sources,           \* the order in which the loop takes the sources
  pc,                \* position in the function
  resolved,          \* the options after resolveDefaults
  brandes,           \* the indexer selected: "dijkstra" or "unweighted"
  k,                 \* number of sources taken so far
  S, P, sigma,       \* the indexer's stack, predecessors and path counts
  delta,             \* the dependency scratch array
  centralities,      \* node totals (by index)
  edgeCentralities,  \* edge totals (by edge key)
  resetIdx           \* the delta indices the last reset loop assigned

vars ==
  <<fn, graph, options, sources, pc, resolved, brandes, k, S, P, sigma, delta,
    centralities, edgeCentralities, resetIdx>>

Source == sources[k]

\* ------------------------------------------------------------------------
\* Inputs.
\* ------------------------------------------------------------------------
Pairs(type, N) ==
  {e \in (0 .. (N - 1)) \X (0 .. (N - 1)) :
     IF type = "undirected" THEN e[1] < e[2] ELSE e[1] # e[2]}

Graph(type, N, E, H) == [order |-> N, type |-> type, edges |-> E, heavy |-> H]

\* Graphs whose edges carry no weight attribute.
PlainGraphs(type, maxN) ==
  {Graph(type, x[1], x[2], {}) :
     x \in UNION {{N} \X SUBSET Pairs(type, N) : N \in 0 .. maxN}}

\* Graphs in which some edges carry the weight HeavyWeight.
WeightedGraphs(plain) ==
  {Graph(x[1].type, x[1].order, x[1].edges, x[2]) :
     x \in UNION {{g} \X (SUBSET g.edges \ {{}}) : g \in plain}}

SparseDirected(maxArcs) ==
  {g \in PlainGraphs("directed", MaxDirOrder) : Cardinality(g.edges) <= maxArcs}

SmallGraphs ==
  PlainGraphs("undirected", MaxSmallOrder) \cup SparseDirected(MaxArcs)

InputGraphs ==
  PlainGraphs("undirected", MaxOrder) \cup PlainGraphs("directed", MaxDirOrder)

Identity(N) == [p \in 1 .. N |-> p - 1]

SourceOrders(N) ==
  {f \in [1 .. N -> 0 .. (N - 1)] : \A a, b \in 1 .. N : f[a] = f[b] => a = b}

Omitted == Undefined

\* The four combinations of indexer and normalization.
InputOptions ==
  {Omitted} \cup
  {Object([normalized |-> Bool(FALSE)]),
   Object([getEdgeWeight |-> Null]),
   Object([getEdgeWeight |-> Null, normalized |-> Bool(FALSE)])}

\* Options that keep the weight accessor.
WeightedOptions == {Omitted, Object([normalized |-> Bool(FALSE)])}

\* Every options value over the keys the code reads.
OptionValues ==
  [getEdgeWeight : {Undefined, Null, Str(""), Str("weight"), Str("cost"),
                    Function, Bool(FALSE)},
   normalized : {Bool(TRUE), Bool(FALSE), Null}]

AllOptions ==
  {Omitted} \cup
  {Object([x \in D |-> f[x]]) :
     f \in OptionValues, D \in SUBSET {"getEdgeWeight", "normalized"}}

Start(f, g, o, order) ==
  /\ fn = f
  /\ graph = g
  /\ options = o
  /\ sources = order
  /\ pc = "resolve"
  /\ resolved = Defaults(f)
  /\ brandes = "none"
  /\ k = 0
  /\ S = NewStack(0)
  /\ P = <<>>
  /\ sigma = <<>>
  /\ delta = <<>>
  /\ centralities = <<>>
  /\ edgeCentralities = <<>>
  /\ resetIdx = {}

Functions == {"node", "edge"}

\* Any graph, the four option combinations, sources in the code's order.
Init ==
  \/ \E f \in Functions, g \in InputGraphs, o \in InputOptions :
       Start(f, g, o, Identity(g.order))
  \/ \E f \in Functions, g \in WeightedGraphs(SmallGraphs), o \in WeightedOptions :
       Start(f, g, o, Identity(g.order))

\* Any options value, on small graphs.
InitOptions ==
  \E f \in Functions, g \in PlainGraphs("undirected", MaxSmallOrder), o \in AllOptions :
    Start(f, g, o, Identity(g.order))

\* The loop taking the sources in any order.
InitAnyOrder ==
  \/ \E f \in Functions,
        g \in PlainGraphs("undirected", MaxSmallOrder) \cup SparseDirected(MaxAnyOrderArcs),
        o \in {Omitted, Object([getEdgeWeight |-> Null])} :
       \E order \in SourceOrders(g.order) : Start(f, g, o, order)
  \/ \E f \in Functions, g \in WeightedGraphs(PlainGraphs("undirected", MaxSmallOrder)) :
       \E order \in SourceOrders(g.order) : Start(f, g, Omitted, order)

\* ------------------------------------------------------------------------
\* Steps.
\* ------------------------------------------------------------------------
\* Lines 47-61 and 123-142: resolve the options, select the indexer, allocate
\* delta and the totals.
Resolve ==
  /\ pc = "resolve"
  /\ resolved' = ResolveDefaults(options, Defaults(fn))
  /\ brandes' = SelectBrandes(resolved')
  /\ S' = NewStack(graph.order)
  /\ P' = [v \in Nodes(graph) |-> <<>>]
  /\ sigma' = [v \in Nodes(graph) |-> 0]
  /\ delta' = [v \in Nodes(graph) |-> Zero]
  /\ centralities' = IF fn = "node" THEN [v \in Nodes(graph) |-> Zero] ELSE <<>>
  /\ edgeCentralities' = IF fn = "edge" THEN InitEdgeCentralities(graph) ELSE <<>>
  /\ pc' = IF graph.order = 0 THEN "rescale" ELSE "index"
  /\ UNCHANGED <<fn, graph, options, sources, k, resetIdx>>

\* result = brandes(i)
Index ==
  /\ pc = "index"
  /\ k' = k + 1
  /\ LET r == Brandes(brandes, graph, resolved.getEdgeWeight, S, sources[k'])
     IN  /\ S' = r.S
         /\ P' = r.P
         /\ sigma' = r.sigma
  /\ pc' = "reset"
  /\ UNCHANGED <<fn, graph, options, sources, resolved, brandes, delta,
                 centralities, edgeCentralities, resetIdx>>

\* j = S.size; while (j--) delta[S.items[S.size - j]] = 0
ResetDelta ==
  /\ pc = "reset"
  /\ LET r == Reset(delta, S)
     IN  /\ delta' = r.delta
         /\ resetIdx' = r.written
  /\ pc' = "accumulate"
  /\ UNCHANGED <<fn, graph, options, sources, resolved, brandes, k, S, P, sigma,
                 centralities, edgeCentralities>>

NextPc == IF k < graph.order THEN "index" ELSE "rescale"

\* while (S.size !== 0) { ... } of the node accumulator
AccumulateNode ==
  /\ pc = "accumulate"
  /\ fn = "node"
  /\ LET r == NodeAccumulate(
                [S |-> S, delta |-> delta, centralities |-> centralities],
                P, sigma, Source)
     IN  /\ S' = r.S
         /\ delta' = r.delta
         /\ centralities' = r.centralities
  /\ pc' = NextPc
  /\ UNCHANGED <<fn, graph, options, sources, resolved, brandes, k, P, sigma,
                 edgeCentralities, resetIdx>>

\* while (S.size !== 0) { ... } of the edge accumulator
AccumulateEdge ==
  /\ pc = "accumulate"
  /\ fn = "edge"
  /\ LET r == EdgeAccumulate(graph,
                [S |-> S, delta |-> delta, edgeCentralities |-> edgeCentralities],
                P, sigma)
     IN  /\ S' = r.S
         /\ delta' = r.delta
         /\ edgeCentralities' = r.edgeCentralities
  /\ pc' = NextPc
  /\ UNCHANGED <<fn, graph, options, sources, resolved, brandes, k, P, sigma,
                 centralities, resetIdx>>

Normalized == Truthy(resolved.normalized)

\* Lines 89-101 and 178-197: rescale and return the collected mapping.
Rescale ==
  /\ pc = "rescale"
  /\ centralities' =
       IF fn = "node"
       THEN Rescaled(centralities, NodeScale(Normalized, graph))
       ELSE centralities
  /\ edgeCentralities' =
       IF fn = "edge"
       THEN Rescaled(edgeCentralities, EdgeScale(Normalized, graph))
       ELSE edgeCentralities
  /\ pc' = "done"
  /\ UNCHANGED <<fn, graph, options, sources, resolved, brandes, k, S, P, sigma,
                 delta, resetIdx>>

Next ==
  \/ Resolve
  \/ Index
  \/ ResetDelta
  \/ AccumulateNode
  \/ AccumulateEdge
  \/ Rescale

Spec == Init /\ [][Next]_vars
SpecOptions == InitOptions /\ [][Next]_vars
SpecAnyOrder == InitAnyOrder /\ [][Next]_vars

\* ------------------------------------------------------------------------
\* A whole call as a function of its inputs: the same steps, composed.
\* ------------------------------------------------------------------------
ZeroDelta(g) == [v \in Nodes(g) |-> Zero]

NodeStart(g) ==
  [S |-> NewStack(g.order), delta |-> ZeroDelta(g), centralities |-> ZeroDelta(g)]

EdgeStart(g) ==
  [S |-> NewStack(g.order), delta |-> ZeroDelta(g),
   edgeCentralities |-> InitEdgeCentralities(g)]

\* One iteration of the node accumulator's loop over the sources.
NodeIteration(g, kind, gew, st, i) ==
  LET r == Brandes(kind, g, gew, st.S, i)
  IN  NodeAccumulate(
        [S |-> r.S, delta |-> Reset(st.delta, r.S).delta,
         centralities |-> st.centralities],
        r.P, r.sigma, i)

\* One iteration of the edge accumulator's loop over the sources.
EdgeIteration(g, kind, gew, st, i) ==
  LET r == Brandes(kind, g, gew, st.S, i)
  IN  EdgeAccumulate(g,
        [S |-> r.S, delta |-> Reset(st.delta, r.S).delta,
         edgeCentralities |-> st.edgeCentralities],
        r.P, r.sigma)

RECURSIVE NodeLoop(_, _, _, _, _)
NodeLoop(g, kind, gew, order, n) ==
  IF n = 0 THEN NodeStart(g)
  ELSE NodeIteration(g, kind, gew, NodeLoop(g, kind, gew, order, n - 1), order[n])

RECURSIVE EdgeLoop(_, _, _, _, _)
EdgeLoop(g, kind, gew, order, n) ==
  IF n = 0 THEN EdgeStart(g)
  ELSE EdgeIteration(g, kind, gew, EdgeLoop(g, kind, gew, order, n - 1), order[n])

\* betweennessCentrality(g, o) and edgeBetweennessCentrality(g, o)
BetweennessCentrality(g, o) ==
  LET r == ResolveDefaults(o, DEFAULTS_NODE)
      totals == NodeLoop(g, SelectBrandes(r), r.getEdgeWeight,
                         Identity(g.order), g.order).centralities
  IN  Rescaled(totals, NodeScale(Truthy(r.normalized), g))

EdgeBetweennessCentrality(g, o) ==
  LET r == ResolveDefaults(o, DEFAULTS_EDGE)
      totals == EdgeLoop(g, SelectBrandes(r), r.getEdgeWeight,
                         Identity(g.order), g.order).edgeCentralities
  IN  Rescaled(totals, EdgeScale(Truthy(r.normalized), g))

\* The options o with one key set.
With(o, key, value) ==
  Object([x \in (IF o.t = "object" THEN DOMAIN o.v ELSE {}) \cup {key} |->
            IF x = key THEN value ELSE o.v[x]])

\* The state machine computes what the composed call computes.
MachineIsCall ==
  pc = "done" /\ sources = Identity(graph.order) =>
    IF fn = "node"
    THEN centralities = BetweennessCentrality(graph, options)
    ELSE edgeCentralities = EdgeBetweennessCentrality(graph, options)

\* ------------------------------------------------------------------------
\* Graph notions the properties are stated in, defined without the indexers.
\* ------------------------------------------------------------------------
Linked(g, v, w) == <<v, w>> \in g.edges \/ <<w, v>> \in g.edges

\* The nodes connected to a node of set, ignoring orientation, without
\* entering the nodes of ban and without using the edge skip.
RECURSIVE Grow(_, _, _, _)
Grow(g, set, ban, skip) ==
  LET more == {w \in Nodes(g) \ ban :
                 \E v \in set : Linked(g, v, w) /\ <<v, w>> # skip /\ <<w, v>> # skip}
  IN  IF more \subseteq set THEN set ELSE Grow(g, set \cup more, ban, skip)

Component(g, x) == Grow(g, {x}, {}, NoEdge)

IsTree(g) ==
  /\ g.type = "undirected"
  /\ g.order >= 1
  /\ Cardinality(g.edges) = g.order - 1
  /\ Component(g, 0) = Nodes(g)

\* The unordered pairs of other nodes that removing v separates.
PairsThrough(g, v) ==
  Cardinality({q \in (Nodes(g) \ {v}) \X (Nodes(g) \ {v}) :
                 q[1] < q[2] /\ q[2] \notin Grow(g, {q[1]}, {v}, NoEdge)})

\* The number of nodes on e[1]'s side of the edge e.
SideSize(g, e) == Cardinality(Grow(g, {e[1]}, {}, e))

IsStar(g, c) ==
  /\ g.type = "undirected"
  /\ g.order >= 3
  /\ g.edges = {e \in Pairs("undirected", g.order) : c \in {e[1], e[2]}}

PathABCD == Graph("undirected", 4, {<<0, 1>>, <<1, 2>>, <<2, 3>>}, {})

\* No weight reaches the indexer: no edge carries one, or the indexer is
\* the unweighted one.
Unweighted == graph.heavy = {} \/ brandes = "unweighted"

Finished(f) == pc = "done" /\ fn = f

\* ------------------------------------------------------------------------
\* C1.
\* ------------------------------------------------------------------------
SuppliedWeight == Get(options, "getEdgeWeight")

\* C1 as stated: with no getEdgeWeight supplied the unweighted indexer is
\* selected, and the Dijkstra indexer only when an accessor is supplied.
C1_Original ==
  pc # "resolve" =>
    /\ SuppliedWeight.t = "undefined" => brandes = "unweighted"
    /\ brandes = "dijkstra" => SuppliedWeight.t \in {"string", "function"}

\* C1 amended: the Dijkstra indexer is selected exactly when the caller
\* supplies no getEdgeWeight (the default 'weight' applies) or a truthy one;
\* the unweighted indexer exactly when the caller supplies a falsy value
\* other than undefined.
C1_Selection ==
  pc # "resolve" =>
    (brandes = "dijkstra" <=>
       SuppliedWeight.t = "undefined" \/ Truthy(SuppliedWeight))

C1_Witness ==
  /\ pc = "done"
  /\ options = Omitted
  /\ brandes = "dijkstra"
  /\ resolved.getEdgeWeight = Str("weight")

\* ------------------------------------------------------------------------
\* C2.
\* ------------------------------------------------------------------------
DocumentedNodeScale(g) == Div(Num(1), Num((g.order - 1) * (g.order - 2)))
DocumentedEdgeScale(g) == Div(Num(1), Num(g.order * (g.order - 1)))

RawOptions == With(options, "normalized", Bool(FALSE))

\* The raw output times factor times the documented scale is the output.
ScalesFromRaw(factor) ==
  /\ Finished("node") /\ graph.order > 2 =>
       LET raw == BetweennessCentrality(graph, RawOptions)
       IN  centralities =
             [x \in DOMAIN raw |->
                Mul(Mul(raw[x], Num(factor)), DocumentedNodeScale(graph))]
  /\ Finished("edge") /\ graph.order > 1 =>
       LET raw == EdgeBetweennessCentrality(graph, RawOptions)
       IN  edgeCentralities =
             [x \in DOMAIN raw |->
                Mul(Mul(raw[x], Num(factor)), DocumentedEdgeScale(graph))]

\* C2 as stated: the raw output times the documented scale factor is the
\* normalized output, for directed and undirected graphs.
C2_Original == Normalized => ScalesFromRaw(1)

\* C2 amended: that holds for directed graphs; for undirected graphs the
\* raw output is already halved, and twice the raw output times the
\* documented scale factor is the normalized output.
C2_Scaling ==
  Normalized => ScalesFromRaw(IF graph.type = "undirected" THEN 2 ELSE 1)

C2_Witness ==
  /\ Finished("node")
  /\ Normalized
  /\ graph.type = "undirected"
  /\ graph.order > 2
  /\ \E x \in Nodes(graph) : centralities[x] # Zero

\* ------------------------------------------------------------------------
\* C3.
\* ------------------------------------------------------------------------
\* C3: on an undirected unweighted tree with normalized = false every
\* node's value is the number of unordered pairs of other nodes whose path
\* passes through it; the center of a star with k >= 2 leaves has
\* k(k-1)/2 and its leaves 0; the path A-B-C-D has 0, 2, 2, 0.
C3_Tree ==
  Finished("node") /\ IsTree(graph) /\ Unweighted /\ ~Normalized =>
    /\ \A v \in Nodes(graph) : centralities[v] = Num(PairsThrough(graph, v))
    /\ \A c \in Nodes(graph) :
         IsStar(graph, c) =>
           LET leaves == graph.order - 1
           IN  \A v \in Nodes(graph) :
                 centralities[v] =
                   IF v = c THEN Div(Num(leaves * (leaves - 1)), Num(2)) ELSE Zero
    /\ graph = PathABCD =>
         centralities = [v \in Nodes(graph) |-> IF v \in {1, 2} THEN Num(2) ELSE Zero]

C3_Witness ==
  /\ Finished("node")
  /\ graph = PathABCD
  /\ ~Normalized
  /\ centralities[1] = Num(2)
  /\ centralities[0] = Zero

\* ------------------------------------------------------------------------
\* C4.
\* ------------------------------------------------------------------------
\* C4: on an undirected unweighted tree with normalized = false every
\* edge's value is the product of the sizes of the two sides of the edge.
C4_TreeEdge ==
  Finished("edge") /\ IsTree(graph) /\ Unweighted /\ ~Normalized =>
    /\ DOMAIN edgeCentralities = graph.edges
    /\ \A e \in graph.edges :
         edgeCentralities[e] =
           Num(SideSize(graph, e) * (graph.order - SideSize(graph, e)))

C4_Witness ==
  /\ Finished("edge")
  /\ graph = PathABCD
  /\ ~Normalized
  /\ edgeCentralities[<<1, 2>>] = Num(4)
  /\ edgeCentralities[<<0, 1>>] = Num(3)

\* ------------------------------------------------------------------------
\* C5.
\* ------------------------------------------------------------------------
\* C5: every normalized node value lies in [0, 1].
C5_UnitInterval ==
  Finished("node") /\ Normalized =>
    \A v \in Nodes(graph) : Leq(Zero, centralities[v]) /\ Leq(centralities[v], Num(1))

C5_Witness ==
  /\ Finished("node")
  /\ Normalized
  /\ \E v \in Nodes(graph) : centralities[v] = Num(1)
  /\ \E v \in Nodes(graph) : centralities[v] = Zero

\* ------------------------------------------------------------------------
\* C6.
\* ------------------------------------------------------------------------
Rank(C, x) == Cardinality({y \in C : y < x})

Renamed(C, E) == {<<Rank(C, e[1]), Rank(C, e[2])>> : e \in E}

\* The component C of g as a graph on its own, its nodes indexed in order.
Induced(g, C) ==
  Graph(g.type, Cardinality(C),
        Renamed(C, {e \in g.edges : e[1] \in C /\ e[2] \in C}),
        Renamed(C, {e \in g.heavy : e[1] \in C /\ e[2] \in C}))

SeveralComponents == graph.order >= 1 /\ Component(graph, 0) # Nodes(graph)

Alone(x) ==
  LET C == Component(graph, x)
  IN  BetweennessCentrality(Induced(graph, C), options)[Rank(C, x)]

PairCount(N) == IF N > 2 THEN (N - 1) * (N - 2) ELSE 1

\* C6 as stated: with any options, a node's value on a disjoint union is
\* its value on its own component alone.
C6_Original ==
  Finished("node") /\ SeveralComponents =>
    \A x \in Nodes(graph) : centralities[x] = Alone(x)

\* C6 amended: that holds with normalized = false; with normalized = true
\* the two values agree once each is multiplied by the (N-1)(N-2) of the
\* graph it was computed on (N > 2).
C6_Components ==
  Finished("node") /\ SeveralComponents =>
    \A x \in Nodes(graph) :
      IF Normalized
      THEN Mul(centralities[x], Num(PairCount(graph.order))) =
             Mul(Alone(x), Num(PairCount(Cardinality(Component(graph, x)))))
      ELSE centralities[x] = Alone(x)

C6_Witness ==
  /\ Finished("node")
  /\ SeveralComponents
  /\ ~Normalized
  /\ \E x \in Nodes(graph) : centralities[x] # Zero /\ centralities[x] = Alone(x)

\* ------------------------------------------------------------------------
\* C7.
\* ------------------------------------------------------------------------
\* The weight the selected indexer gives the edge e.
UsedWeight(e) ==
  IF brandes = "dijkstra" THEN EdgeWeight(graph, resolved.getEdgeWeight, e) ELSE 1

\* The ordered pairs <<v, w, e>> along which edge e can be walked.
Arcs(g) ==
  {<<e[1], e[2], e>> : e \in g.edges} \cup
  (IF g.type = "undirected" THEN {<<e[2], e[1], e>> : e \in g.edges} ELSE {})

Least(set) == CHOOSE m \in set : \A y \in set : m <= y

\* One round of relaxation of the distances d; -1 is unreachable.
Relax(g, d) ==
  [w \in Nodes(g) |->
     LET reach == {d[a[1]] + UsedWeight(a[3]) :
                     a \in {b \in Arcs(g) : b[2] = w /\ d[b[1]] >= 0}}
                    \cup (IF d[w] >= 0 THEN {d[w]} ELSE {})
     IN  IF reach = {} THEN -1 ELSE Least(reach)]

\* Shortest distances from s, by n rounds of relaxation.
RECURSIVE Distances(_, _, _)
Distances(g, s, n) ==
  IF n = 0 THEN [v \in Nodes(g) |-> IF v = s THEN 0 ELSE -1]
  ELSE CHOOSE r \in {Relax(g, d) : d \in {Distances(g, s, n - 1)}} : TRUE

OnShortestPath(e) ==
  \E s \in Nodes(graph) :
    \E d \in {Distances(graph, s, graph.order)} :
      \E a \in Arcs(graph) :
        a[3] = e /\ d[a[1]] >= 0 /\ d[a[1]] + UsedWeight(e) = d[a[2]]

\* C7: the edge mapping has exactly the graph's edges as keys, every value
\* is >= 0, and an edge on no shortest path has value 0.
C7_EdgeMapping ==
  Finished("edge") =>
    /\ DOMAIN edgeCentralities = graph.edges
    /\ \A e \in graph.edges :
         /\ Leq(Zero, edgeCentralities[e])
         /\ ~OnShortestPath(e) => edgeCentralities[e] = Zero

C7_Witness ==
  /\ Finished("edge")
  /\ \E e \in graph.edges : ~OnShortestPath(e) /\ edgeCentralities[e] = Zero
  /\ \E e \in graph.edges : edgeCentralities[e] # Zero

\* ------------------------------------------------------------------------
\* C8.
\* ------------------------------------------------------------------------
\* C8: after the reset loop, the delta indices it assigned are exactly the
\* entries of S, the source included, and each of them holds 0.
C8_Original ==
  pc = "accumulate" =>
    /\ resetIdx = StackSet(S)
    /\ \A x \in StackSet(S) : delta[x] = Zero

\* ------------------------------------------------------------------------
\* C9.
\* ------------------------------------------------------------------------
Kind == brandes
Gew == resolved.getEdgeWeight

\* What one source adds to the totals, computed on fresh buffers.
NodeContribution(i) ==
  NodeIteration(graph, Kind, Gew, NodeStart(graph), i).centralities

EdgeContribution(i) ==
  EdgeIteration(graph, Kind, Gew, EdgeStart(graph), i).edgeCentralities

RECURSIVE SumNode(_)
SumNode(n) ==
  IF n = 0 THEN ZeroDelta(graph)
  ELSE CHOOSE r \in {[v \in Nodes(graph) |-> Add(x[1][v], x[2][v])] :
                      x \in {<<SumNode(n - 1), NodeContribution(n - 1)>>}} : TRUE

RECURSIVE SumEdge(_)
SumEdge(n) ==
  IF n = 0 THEN InitEdgeCentralities(graph)
  ELSE CHOOSE r \in {[e \in graph.edges |-> Add(x[1][e], x[2][e])] :
                      x \in {<<SumEdge(n - 1), EdgeContribution(n - 1)>>}} : TRUE

\* C9: whatever the order of the sources, the totals before rescaling are
\* those of the order 0, 1, ..., N-1 and are the sum of the sources'
\* contributions.
C9_AnyOrder ==
  /\ pc = "rescale" =>
       IF fn = "node"
       THEN /\ centralities = SumNode(graph.order)
            /\ centralities =
                 NodeLoop(graph, Kind, Gew, Identity(graph.order), graph.order).centralities
       ELSE /\ edgeCentralities = SumEdge(graph.order)
            /\ edgeCentralities =
                 EdgeLoop(graph, Kind, Gew, Identity(graph.order), graph.order).edgeCentralities
  /\ pc = "done" =>
       IF fn = "node"
       THEN centralities = BetweennessCentrality(graph, options)
       ELSE edgeCentralities = EdgeBetweennessCentrality(graph, options)

C9_Witness ==
  /\ pc = "done"
  /\ fn = "node"
  /\ sources # Identity(graph.order)
  /\ sources[1] # 0
  /\ \E v \in Nodes(graph) : centralities[v] # Zero

\* ------------------------------------------------------------------------
\* C10.
\* ------------------------------------------------------------------------
\* The reference accumulators: the whole delta array is zeroed before each
\* source.
RECURSIVE RefNodeLoop(_)
RefNodeLoop(n) ==
  IF n = 0 THEN NodeStart(graph)
  ELSE
    LET st == RefNodeLoop(n - 1)
        r == Brandes(Kind, graph, Gew, st.S, sources[n])
    IN  NodeAccumulate(
          [S |-> r.S, delta |-> ZeroDelta(graph), centralities |-> st.centralities],
          r.P, r.sigma, sources[n])

RECURSIVE RefEdgeLoop(_)
RefEdgeLoop(n) ==
  IF n = 0 THEN EdgeStart(graph)
  ELSE
    LET st == RefEdgeLoop(n - 1)
        r == Brandes(Kind, graph, Gew, st.S, sources[n])
    IN  EdgeAccumulate(graph,
          [S |-> r.S, delta |-> ZeroDelta(graph),
           edgeCentralities |-> st.edgeCentralities],
          r.P, r.sigma)

AfterIteration == pc \in {"index", "rescale"} /\ k >= 1

\* C10: after every source iteration the totals are those of the reference
\* accumulator; no delta value left by an earlier source reaches a total.
C10_Reference ==
  AfterIteration =>
    IF fn = "node"
    THEN centralities = RefNodeLoop(k).centralities
    ELSE edgeCentralities = RefEdgeLoop(k).edgeCentralities

\* The code's delta differs from the reference's (a leftover survived the
\* reset loop) and the totals are not all zero.
C10_Witness ==
  /\ AfterIteration
  /\ fn = "node"
  /\ k >= 2
  /\ delta # RefNodeLoop(k).delta
  /\ \E v \in Nodes(graph) : centralities[v] # Zero

====
